---- MODULE Spec2Model ----
(***************************************************************************)
(* Step execution and orchestration of the study pipeline.                 *)
(*                                                                         *)
(*   forward step : scripts/source/_04_make_forward.py (main, run_forward, *)
(*                  get_input_fnames_forward, get_config), run through     *)
(*                  failsafe_run / parallel_func / save_logs of config     *)
(*   epoch step   : 04-make_epochs.py (run_epochs and its module-level     *)
(*                  parallel dispatch over config.subjects_list)           *)
(***************************************************************************)
EXTENDS Integers, Sequences, FiniteSets, TLC

(* ------------------------------ bounds --------------------------------- *)
MaxSubjects == 2
MaxSessions == 2
MaxUnits == 2
MaxJobs == 2
MaxTime == 2
MaxCalls == 2
MaxNJobs == 32

VARIABLES
    config,      \* the settings module: subjects_list, exclude_subjects, ...
    fs,          \* file system: path -> modification time, 0 = no such file
    clock,       \* time of the next write
    pc,          \* position of the batch call
    units,       \* the work units the batch call iterates over, in order
    cfgs,        \* per unit: the SimpleNamespace built by get_config
    st,          \* per unit: lifecycle state
    in_files,    \* per unit: the resolved inputs
    results,     \* per unit: what the worker returned
    completed,   \* unit indexes in the order the workers finished
    logs,        \* the list returned by parallel(...)
    saved,       \* what save_logs received
    err,         \* the exception that left the batch call
    run,         \* number of the batch run
    prevLogs,    \* logs of the previous batch run
    prevSt,      \* final lifecycle states of the previous batch run
    executed,    \* units whose step body was invoked in this run
    probe,       \* result of the last pure-function application
    begin        \* the file system and the clock when the batch run started

vars == <<config, fs, clock, pc, units, cfgs, st, in_files, results,
          completed, logs, saved, err, run, prevLogs, prevSt, executed, probe,
          begin>>

(* ----------------------------- helpers --------------------------------- *)
\* Python's None: where a string is expected, and where a mapping or record is
NoValue == "None"
Nothing == <<>>

Range(s) == {s[i] : i \in 1..Len(s)}

Max(a, b) == IF a >= b THEN a ELSE b

(* ------------------------- the settings module ------------------------- *)
SubjectIds == 1..MaxSubjects

\* rosters list the subjects in an order that is not the sorted one
Rosters == {[i \in 1..k |-> k + 1 - i] : k \in 0..MaxSubjects}

SessionLists == {[i \in 1..k |-> i] : k \in 1..MaxSessions}

\* config.subjects_list x config.sessions sizes the model lets a batch have
ConfigShapes ==
    {<<r, s>> \in Rosters \X SessionLists : Len(r) * Len(s) <= MaxUnits}

(* ------------------------------ artifacts ------------------------------ *)
\* a path is <<kind, subject, session>>; session 0 = not session-specific
InputNames == {"info", "bem", "src"}
OutputNames == {"trans", "forward"}

ForwardPaths ==
    ({"info", "trans", "fwd"} \X SubjectIds \X (1..MaxSessions))
        \cup ({"bem", "src"} \X SubjectIds \X {0})

EpochPaths == {"raw", "eve", "epo"} \X SubjectIds \X {0}

Paths == ForwardPaths \cup EpochPaths

(* ----------------------- forward step: pure parts ---------------------- *)
\* get_config(subject=subject): the per-unit namespace; fs_subject is the
\* only member that differs between units
get_config(subject) == [fs_subject |-> subject]

\* get_config raises when a per-subject override is malformed
get_config_raises(c, subject) == subject \in c.bad_overrides

\* (a resolver that looks for the info file and, when the session has none,
\* takes the one of the first session)
get_input_fnames_forward_existing(cfg, subject, session) ==
    [n \in InputNames |->
        CASE n = "info" -> IF fs[<<"info", subject, session>>] = 0
                           THEN <<"info", subject, 1>>
                           ELSE <<"info", subject, session>>
          [] n = "bem"  -> <<"bem", cfg.fs_subject, 0>>
          [] n = "src"  -> <<"src", cfg.fs_subject, 0>>]

get_input_fnames_forward(cfg, subject, session) ==
    [n \in InputNames |->
        CASE n = "info" -> <<"info", subject, session>>
          [] n = "bem"  -> <<"bem", cfg.fs_subject, 0>>
          [] n = "src"  -> <<"src", cfg.fs_subject, 0>>]

\* (output names built without the session entity)
out_fnames_forward_without_session(subject, session) ==
    [n \in OutputNames |->
        CASE n = "trans"   -> <<"trans", subject, 1>>
          [] n = "forward" -> <<"fwd", subject, 1>>]

\* out_files of run_forward
out_fnames_forward(subject, session) ==
    [n \in OutputNames |->
        CASE n = "trans"   -> <<"trans", subject, session>>
          [] n = "forward" -> <<"fwd", subject, session>>]

\* config.get_subjects(): the roster without the excluded subjects
get_subjects(c) ==
    SelectSeq(c.subjects_list, LAMBDA s : s \notin c.exclude_subjects)

get_sessions(c) == c.sessions

\* (a loop over the subjects alone, as a step without sessions would write it)
product_subjects_only(a, b) ==
    [k \in 1..Len(a) |-> [subject |-> a[k], session |-> b[1]]]

\* itertools.product(a, b): a-major, b-minor
product(a, b) ==
    [k \in 1..(Len(a) * Len(b)) |->
        [subject |-> a[((k - 1) \div Len(b)) + 1],
         session |-> b[((k - 1) % Len(b)) + 1]]]

(* ------------------------- freshness decision -------------------------- *)
RECURSIVE NewestInput(_, _, _)
\* modification time of the newest input that exists (0 when none does)
NewestInput(f, ins, names) ==
    IF names = {} THEN 0
    ELSE LET n == CHOOSE x \in names : TRUE
         IN  Max(f[ins[n]], NewestInput(f, ins, names \ {n}))

RECURSIVE OldestOutput(_, _, _)
\* modification time of the oldest of the (at least one) outputs
OldestOutput(f, outs, names) ==
    LET n == CHOOSE x \in names : TRUE
    IN  IF names = {n} THEN f[outs[n]]
        ELSE LET rest == OldestOutput(f, outs, names \ {n})
             IN  IF f[outs[n]] < rest THEN f[outs[n]] ELSE rest

RECURSIVE AnyMissing(_, _, _)
AnyMissing(f, files, names) ==
    IF names = {} THEN FALSE
    ELSE LET n == CHOOSE x \in names : TRUE
         IN  IF f[files[n]] = 0 THEN TRUE
             ELSE AnyMissing(f, files, names \ {n})

\* (a decision that compares the outputs with the inputs it finds only)
decide_existing_inputs_only(f, ins, outs) ==
    IF AnyMissing(f, outs, DOMAIN outs) THEN "STALE"
    ELSE IF OldestOutput(f, outs, DOMAIN outs) < NewestInput(f, ins, DOMAIN ins)
         THEN "STALE"
    ELSE "CURRENT"

decide(f, ins, outs) ==
    IF AnyMissing(f, ins, DOMAIN ins) THEN "STALE"
    ELSE IF AnyMissing(f, outs, DOMAIN outs) THEN "STALE"
    ELSE IF OldestOutput(f, outs, DOMAIN outs) < NewestInput(f, ins, DOMAIN ins)
         THEN "STALE"
    ELSE "CURRENT"

(* --------------------------- outcome records --------------------------- *)
Terminal == {"SKIPPED", "SUCCESS", "FAILED"}

InFlightStates == {"SNAPSHOT_BUILT", "INPUTS_RESOLVED", "CURRENT", "STALE", "RUNNING"}

ErrorKinds == {"MissingInputError", "ComputationError", "OutputWriteError"}

OutcomeRecord(u, status, kind, outs) ==
    [unit |-> u, status |-> status, error |-> kind, out_files |-> outs]

N == Len(units)

InFlight == Cardinality({i \in 1..N : st[i] \in InFlightStates})

(* ------------------------ run log aggregation -------------------------- *)
RECURSIVE CountStatus(_, _)
CountStatus(records, status) ==
    IF records = <<>> THEN 0
    ELSE (IF Head(records).status = status THEN 1 ELSE 0)
            + CountStatus(Tail(records), status)

\* (a batch counted as failed as soon as not every unit succeeded)
aggregate_skip_fails(records) ==
    LET counts == [s \in Terminal |-> CountStatus(records, s)]
    IN  [records |-> records,
         counts |-> counts,
         failed |-> SelectSeq(records, LAMBDA r : r.status = "FAILED"),
         exit_failure |-> counts["SUCCESS"] < Len(records)]

\* save_logs(logs): the end-of-run summary and the batch exit status
aggregate(records) ==
    LET counts == [s \in Terminal |-> CountStatus(records, s)]
    IN  [records |-> records,
         counts |-> counts,
         failed |-> SelectSeq(records, LAMBDA r : r.status = "FAILED"),
         exit_failure |-> counts["FAILED"] > 0]

(* ----------------------- forward step: main() -------------------------- *)
\* main(), lines 184-187: source estimation is switched off
MainSkipped ==
    /\ pc = "start"
    /\ ~config.run_source_estimation
    /\ pc' = "done"
    /\ UNCHANGED <<config, fs, clock, units, cfgs, st, in_files, results,
                   completed, logs, saved, err, run, prevLogs, prevSt, executed, probe,
                   begin>>

\* the iterable of the generator expression: itertools.product(...)
Enumerate ==
    /\ pc = "start"
    /\ config.run_source_estimation
    /\ IF config.roster_malformed
       THEN /\ pc' = "raised"
            /\ err' = "ConfigurationError"
            /\ UNCHANGED <<units, cfgs, st, in_files, results>>
       ELSE LET us == product(get_subjects(config), get_sessions(config))
            IN  /\ units' = us
                /\ cfgs' = [i \in 1..Len(us) |-> Nothing]
                /\ st' = [i \in 1..Len(us) |-> "ENUMERATED"]
                /\ in_files' = [i \in 1..Len(us) |-> Nothing]
                /\ results' = [i \in 1..Len(us) |-> Nothing]
                /\ pc' = "dispatch"
                /\ err' = err
    /\ UNCHANGED <<config, fs, clock, completed, logs, saved, run, prevLogs, prevSt,
                   executed, probe, begin>>

\* (get_config called inside the failure boundary of the wrapper)
DispatchInsideBoundary(i) ==
    /\ pc = "dispatch"
    /\ st[i] = "ENUMERATED"
    /\ \A j \in 1..(i - 1) : st[j] # "ENUMERATED"
    /\ InFlight < config.N_JOBS
    /\ IF get_config_raises(config, units[i].subject)
       THEN /\ st' = [st EXCEPT ![i] = "FAILED"]
            /\ results' = [results EXCEPT ![i] =
                    OutcomeRecord(units[i], "FAILED", "ConfigurationError", Nothing)]
            /\ completed' = Append(completed, i)
            /\ UNCHANGED cfgs
       ELSE /\ cfgs' = [cfgs EXCEPT ![i] = get_config(units[i].subject)]
            /\ st' = [st EXCEPT ![i] = "SNAPSHOT_BUILT"]
            /\ UNCHANGED <<results, completed>>
    /\ UNCHANGED <<config, fs, clock, pc, err, units, in_files, logs, saved,
                   run, prevLogs, prevSt, executed, probe, begin>>

\* one step of the generator: run_func(cfg=get_config(subject=subject), ...)
\* is evaluated in the caller, before the task is handed to a worker
Dispatch(i) ==
    /\ pc = "dispatch"
    /\ st[i] = "ENUMERATED"
    /\ \A j \in 1..(i - 1) : st[j] # "ENUMERATED"
    /\ InFlight < config.N_JOBS
    /\ IF get_config_raises(config, units[i].subject)
       THEN /\ pc' = "raised"
            /\ err' = "ConfigurationError"
            /\ UNCHANGED <<cfgs, st>>
       ELSE /\ cfgs' = [cfgs EXCEPT ![i] = get_config(units[i].subject)]
            /\ st' = [st EXCEPT ![i] = "SNAPSHOT_BUILT"]
            /\ UNCHANGED <<pc, err>>
    /\ UNCHANGED <<config, fs, clock, units, in_files, results, completed,
                   logs, saved, run, prevLogs, prevSt, executed, probe, begin>>

(* ------------------ forward step: failsafe_run wrapper ----------------- *)
WorkerActive == pc \in {"dispatch", "raised"}

ResolveInputs(i) ==
    /\ WorkerActive
    /\ st[i] = "SNAPSHOT_BUILT"
    /\ in_files' = [in_files EXCEPT ![i] =
            get_input_fnames_forward(cfgs[i], units[i].subject, units[i].session)]
    /\ st' = [st EXCEPT ![i] = "INPUTS_RESOLVED"]
    /\ UNCHANGED <<config, fs, clock, pc, units, cfgs, results, completed,
                   logs, saved, err, run, prevLogs, prevSt, executed, probe,
                   begin>>

CacheDecision(i) ==
    /\ WorkerActive
    /\ st[i] = "INPUTS_RESOLVED"
    /\ st' = [st EXCEPT ![i] =
            decide(fs, in_files[i],
                   out_fnames_forward(units[i].subject, units[i].session))]
    /\ UNCHANGED <<config, fs, clock, pc, units, cfgs, in_files, results,
                   completed, logs, saved, err, run, prevLogs, prevSt, executed, probe,
                   begin>>

Skip(i) ==
    /\ WorkerActive
    /\ st[i] = "CURRENT"
    /\ st' = [st EXCEPT ![i] = "SKIPPED"]
    /\ results' = [results EXCEPT ![i] =
            OutcomeRecord(units[i], "SKIPPED", NoValue, Nothing)]
    /\ completed' = Append(completed, i)
    /\ UNCHANGED <<config, fs, clock, pc, units, cfgs, in_files, logs, saved,
                   err, run, prevLogs, prevSt, executed, probe, begin>>

\* (a wrapper that runs the body whatever the verdict)
StartBodyWhateverVerdict(i) ==
    /\ pc \in {"dispatch", "raised"}
    /\ st[i] \in {"STALE", "CURRENT"}
    /\ st' = [st EXCEPT ![i] = "RUNNING"]
    /\ executed' = executed \cup {i}
    /\ UNCHANGED <<config, fs, clock, pc, units, cfgs, in_files, results,
                   completed, logs, saved, err, run, prevLogs, prevSt, probe,
                   begin>>

StartBody(i) ==
    /\ WorkerActive
    /\ st[i] = "STALE"
    /\ st' = [st EXCEPT ![i] = "RUNNING"]
    /\ executed' = executed \cup {i}
    /\ UNCHANGED <<config, fs, clock, pc, units, cfgs, in_files, results,
                   completed, logs, saved, err, run, prevLogs, prevSt, probe,
                   begin>>

(* ------------------------ forward step: the body ----------------------- *)
\* run_forward: the ways the body can end on file system f at time now.
\* Reading a missing input raises; the computation or a write may raise;
\* the two outputs are written one after the other (overwrite=True).
run_forward(f, now, ins, outs) ==
    IF AnyMissing(f, ins, DOMAIN ins)
    THEN {[raised |-> "MissingInputError", fs |-> f, out_files |-> Nothing]}
    ELSE {[raised |-> NoValue,
           fs |-> [f EXCEPT ![outs["trans"]] = now, ![outs["forward"]] = now],
           out_files |-> outs],
          [raised |-> "ComputationError", fs |-> f, out_files |-> Nothing],
          [raised |-> "OutputWriteError",
           fs |-> [f EXCEPT ![outs["trans"]] = now], out_files |-> Nothing]}

\* failsafe_run: what the wrapper returns for an outcome of the body
failsafe_result(u, o) ==
    IF o.raised = NoValue
    THEN OutcomeRecord(u, "SUCCESS", NoValue, o.out_files)
    ELSE OutcomeRecord(u, "FAILED", o.raised, Nothing)

\* (a worker whose record replaces the records that are already there)
BodyEndsOverwriting(i) ==
    /\ WorkerActive
    /\ st[i] = "RUNNING"
    /\ \E o \in run_forward(fs, clock, in_files[i],
                    out_fnames_forward(units[i].subject, units[i].session)) :
          LET r == failsafe_result(units[i], o)
          IN  /\ fs' = o.fs
              /\ clock' = IF o.fs = fs THEN clock ELSE clock + 1
              /\ results' = [j \in DOMAIN results |->
                                IF j = i \/ results[j] # Nothing THEN r
                                ELSE results[j]]
              /\ st' = [st EXCEPT ![i] = r.status]
    /\ completed' = Append(completed, i)
    /\ UNCHANGED <<config, pc, units, cfgs, in_files, logs, saved, err, run,
                   prevLogs, prevSt, executed, probe, begin>>

BodyEnds(i) ==
    /\ WorkerActive
    /\ st[i] = "RUNNING"
    /\ \E o \in run_forward(fs, clock, in_files[i],
                    out_fnames_forward(units[i].subject, units[i].session)) :
          LET r == failsafe_result(units[i], o)
          IN  /\ fs' = o.fs
              /\ clock' = IF o.fs = fs THEN clock ELSE clock + 1
              /\ results' = [results EXCEPT ![i] = r]
              /\ st' = [st EXCEPT ![i] = r.status]
    /\ completed' = Append(completed, i)
    /\ UNCHANGED <<config, pc, units, cfgs, in_files, logs, saved, err, run,
                   prevLogs, prevSt, executed, probe, begin>>

\* what parallel(...) returns: the results in the order of the calls in the
\* generator, whatever the order done_order in which the workers finished
parallel_results_by_completion(res, done_order) ==
    [k \in 1..Len(done_order) |-> res[done_order[k]]]

parallel_results(res, done_order) ==
    [i \in 1..Len(res) |-> res[i]]

\* logs = parallel(...); config.save_logs(logs)
Collect ==
    /\ pc = "dispatch"
    /\ \A i \in 1..N : st[i] \in Terminal
    /\ logs' = parallel_results(results, completed)
    /\ saved' = aggregate(logs')
    /\ pc' = "done"
    /\ UNCHANGED <<config, fs, clock, units, cfgs, st, in_files, results,
                   completed, err, run, prevLogs, prevSt, executed, probe,
                   begin>>

\* the same step is started again on the file system the last run left
Rerun ==
    /\ pc = "done"
    /\ run = 1
    /\ run' = run + 1
    /\ prevLogs' = logs
    /\ prevSt' = st
    /\ pc' = "start"
    /\ units' = <<>>
    /\ cfgs' = <<>>
    /\ st' = <<>>
    /\ in_files' = <<>>
    /\ results' = <<>>
    /\ completed' = <<>>
    /\ logs' = <<>>
    /\ saved' = Nothing
    /\ executed' = {}
    /\ begin' = [fs |-> fs, clock |-> clock]
    /\ UNCHANGED <<config, fs, clock, err, probe>>

(* ------------------------------ Init ----------------------------------- *)
\* the files of one work unit before the first run:
\*   fresh    : every input there, no output yet
\*   outdated : every input there, both outputs older than the info file
\*   current  : every input there, both outputs as new as the newest input
\*   noinfo   : the info file is missing, both outputs there
\*   nobem    : the subject's BEM solution is missing, both outputs there
Profiles == {"fresh", "outdated", "current", "noinfo", "nobem"}

InitialFs(us, prof) ==
    [p \in Paths |->
        LET mine == {i \in 1..Len(us) :
                        us[i].subject = p[2] /\ us[i].session = p[3]}
            ofSubject == {i \in 1..Len(us) : us[i].subject = p[2]}
        IN  CASE p[1] = "info" ->
                    IF mine = {} \/ \E i \in mine : prof[i] = "noinfo"
                    THEN 0 ELSE MaxTime
              [] p[1] \in {"trans", "fwd"} ->
                    IF mine = {} \/ \E i \in mine : prof[i] = "fresh" THEN 0
                    ELSE IF \E i \in mine : prof[i] = "outdated"
                    THEN MaxTime - 1 ELSE MaxTime
              [] p[1] = "bem" ->
                    IF \E i \in ofSubject : prof[i] = "nobem"
                    THEN 0 ELSE MaxTime - 1
              [] p[1] = "src" -> MaxTime - 1
              [] OTHER -> 0]

Idle ==
    /\ clock = MaxTime + 1
    /\ pc = "start"
    /\ units = <<>>
    /\ cfgs = <<>>
    /\ st = <<>>
    /\ in_files = <<>>
    /\ results = <<>>
    /\ completed = <<>>
    /\ logs = <<>>
    /\ saved = Nothing
    /\ err = NoValue
    /\ run = 1
    /\ prevLogs = <<>>
    /\ prevSt = <<>>
    /\ executed = {}
    /\ probe = Nothing

Settings(roster, sessions, excl, bad, jobs, rse, malformed) ==
    [subjects_list |-> roster, sessions |-> sessions,
     exclude_subjects |-> excl, bad_overrides |-> bad, N_JOBS |-> jobs,
     run_source_estimation |-> rse, roster_malformed |-> malformed]

Init ==
    /\ Idle
    /\ \E shape \in ConfigShapes, jobs \in 1..MaxJobs,
          rse \in BOOLEAN, malformed \in BOOLEAN :
       \E excl \in {{}} \cup {{x} : x \in Range(shape[1])},
          bad \in {{}} \cup {{x} : x \in Range(shape[1])} :
          /\ config = Settings(shape[1], shape[2], excl, bad, jobs, rse, malformed)
          /\ LET us == product(get_subjects(config), get_sessions(config))
             IN  \E prof \in [1..Len(us) -> Profiles] :
                    /\ (~rse \/ malformed) =>
                            /\ bad = {} /\ jobs = 1
                            /\ \A i \in 1..Len(us) : prof[i] = "fresh"
                    /\ fs = InitialFs(us, prof)
    /\ begin = [fs |-> fs, clock |-> clock]

Next ==
    \/ MainSkipped
    \/ Enumerate
    \/ \E i \in 1..N : Dispatch(i)
    \/ \E i \in 1..N : ResolveInputs(i)
    \/ \E i \in 1..N : CacheDecision(i)
    \/ \E i \in 1..N : Skip(i)
    \/ \E i \in 1..N : StartBody(i)
    \/ \E i \in 1..N : BodyEnds(i)
    \/ Collect
    \/ Rerun

Spec == Init /\ [][Next]_vars

\* the caller and the workers of the pool keep running: while one of them can
\* take a step, a step is taken; nobody is bound to start the step again
Progress ==
    \/ MainSkipped
    \/ Enumerate
    \/ \E i \in 1..N : Dispatch(i)
    \/ \E i \in 1..N : ResolveInputs(i)
    \/ \E i \in 1..N : CacheDecision(i)
    \/ \E i \in 1..N : Skip(i)
    \/ \E i \in 1..N : StartBody(i)
    \/ \E i \in 1..N : BodyEnds(i)
    \/ Collect

SpecFair == Spec /\ WF_vars(Progress)

(* ====================== epoch step: 04-make_epochs.py ================== *)
\* (the quarter of the configured level, without the lower limit)
epochs_N_JOBS_quarter(c) == c.N_JOBS \div 4

\* N_JOBS = max(config.N_JOBS // 4, 1)
epochs_N_JOBS(c) == Max(c.N_JOBS \div 4, 1)

\* the files run_epochs reads for a subject (config.runs = [''])
epochs_in_fnames(subject) ==
    [n \in {"raw", "eve"} |->
        IF n = "raw" THEN <<"raw", subject, 0>> ELSE <<"eve", subject, 0>>]

epochs_fname(subject) == <<"epo", subject, 0>>

\* run_epochs(subject): the ways the body can end; it reads the raw file and
\* the events file, and saves the epochs without looking at what is there;
\* with config.plot the plotting after the save may still raise
run_epochs(f, now, subject) ==
    IF AnyMissing(f, epochs_in_fnames(subject), {"raw", "eve"})
    THEN {[raised |-> "MissingInputError", fs |-> f]}
    ELSE LET saved_fs == [f EXCEPT ![epochs_fname(subject)] = now]
         IN  {[raised |-> NoValue, fs |-> saved_fs],
              [raised |-> "ComputationError", fs |-> f],
              [raised |-> "OutputWriteError", fs |-> f],
              [raised |-> "ComputationError", fs |-> saved_fs]}

\* the iterable of the generator expression: config.subjects_list
EpochsEnumerate ==
    /\ pc = "start"
    /\ LET us == [i \in 1..Len(config.subjects_list) |->
                    [subject |-> config.subjects_list[i], session |-> 0]]
       IN  /\ units' = us
           /\ cfgs' = [i \in 1..Len(us) |-> Nothing]
           /\ st' = [i \in 1..Len(us) |-> "ENUMERATED"]
           /\ in_files' = [i \in 1..Len(us) |-> Nothing]
           /\ results' = [i \in 1..Len(us) |-> Nothing]
    /\ pc' = "dispatch"
    /\ UNCHANGED <<config, fs, clock, completed, logs, saved, err, run,
                   prevLogs, prevSt, executed, probe, begin>>

\* a worker takes run_func(subject) and enters run_epochs
EpochsDispatch(i) ==
    /\ pc = "dispatch"
    /\ st[i] = "ENUMERATED"
    /\ \A j \in 1..(i - 1) : st[j] # "ENUMERATED"
    /\ InFlight < epochs_N_JOBS(config)
    /\ st' = [st EXCEPT ![i] = "RUNNING"]
    /\ executed' = executed \cup {i}
    /\ UNCHANGED <<config, fs, clock, pc, units, cfgs, in_files, results,
                   completed, logs, saved, err, run, prevLogs, prevSt, probe,
                   begin>>

\* run_epochs returns None, or its exception leaves parallel(...)
EpochsBodyEnds(i) ==
    /\ WorkerActive
    /\ st[i] = "RUNNING"
    /\ \E o \in run_epochs(fs, clock, units[i].subject) :
          /\ fs' = o.fs
          /\ clock' = IF o.fs = fs THEN clock ELSE clock + 1
          /\ IF o.raised = NoValue
             THEN /\ st' = [st EXCEPT ![i] = "SUCCESS"]
                  /\ UNCHANGED <<pc, err>>
             ELSE /\ st' = [st EXCEPT ![i] = "FAILED"]
                  /\ pc' = "raised"
                  /\ err' = IF pc = "raised" THEN err ELSE o.raised
    /\ completed' = Append(completed, i)
    /\ UNCHANGED <<config, units, cfgs, in_files, results, logs, saved, run,
                   prevLogs, prevSt, executed, probe, begin>>

\* parallel(...) returns the list of return values, which the script drops
EpochsCollect ==
    /\ pc = "dispatch"
    /\ \A i \in 1..N : st[i] \in Terminal
    /\ logs' = parallel_results(results, completed)
    /\ pc' = "done"
    /\ UNCHANGED <<config, fs, clock, units, cfgs, st, in_files, results,
                   completed, saved, err, run, prevLogs, prevSt, executed, probe,
                   begin>>

\* the files of one subject before the first run of the epoch step
EpochProfiles == {"fresh", "current", "noraw", "noeve"}

EpochsInitialFs(roster, prof) ==
    [p \in Paths |->
        LET mine == {i \in 1..Len(roster) : roster[i] = p[2]}
        IN  CASE p[1] = "raw" ->
                    IF mine = {} \/ \E i \in mine : prof[i] = "noraw"
                    THEN 0 ELSE MaxTime - 1
              [] p[1] = "eve" ->
                    IF mine = {} \/ \E i \in mine : prof[i] = "noeve"
                    THEN 0 ELSE MaxTime - 1
              [] p[1] = "epo" ->
                    IF \E i \in mine : prof[i] = "current"
                    THEN MaxTime ELSE 0
              [] OTHER -> 0]

InitEpochs ==
    /\ Idle
    /\ \E roster \in {r \in Rosters : Len(r) <= MaxUnits},
          jobs \in {1} \cup {4 * k : k \in 2..MaxJobs} :
       \E excl \in {{}} \cup {{x} : x \in Range(roster)},
          prof \in [1..Len(roster) -> EpochProfiles] :
          /\ config = Settings(roster, <<>>, excl, {}, jobs, TRUE, FALSE)
          /\ fs = EpochsInitialFs(roster, prof)
    /\ begin = [fs |-> fs, clock |-> clock]

NextEpochs ==
    \/ EpochsEnumerate
    \/ \E i \in 1..N : EpochsDispatch(i)
    \/ \E i \in 1..N : EpochsBodyEnds(i)
    \/ EpochsCollect
    \/ Rerun

SpecEpochs == InitEpochs /\ [][NextEpochs]_vars

\* the interpreter and the workers of the pool keep running
EpochsProgress ==
    \/ EpochsEnumerate
    \/ \E i \in 1..N : EpochsDispatch(i)
    \/ \E i \in 1..N : EpochsBodyEnds(i)
    \/ EpochsCollect

SpecEpochsFair == SpecEpochs /\ WF_vars(EpochsProgress)

(* ================== the batch with a single worker ===================== *)
\* what the wrapped run_forward does for unit u on file system f at time now
forward_unit(f, now, u) ==
    LET ins == get_input_fnames_forward(get_config(u.subject), u.subject, u.session)
        outs == out_fnames_forward(u.subject, u.session)
    IN  IF decide(f, ins, outs) = "CURRENT"
        THEN {[fs |-> f, clock |-> now, abort |-> FALSE,
               record |-> OutcomeRecord(u, "SKIPPED", NoValue, Nothing)]}
        ELSE {[fs |-> o.fs, clock |-> IF o.fs = f THEN now ELSE now + 1,
               abort |-> FALSE, record |-> failsafe_result(u, o)] :
                    o \in run_forward(f, now, ins, outs)}

\* what run_epochs does for unit u: an exception ends the loop over the units
epochs_unit(f, now, u) ==
    {[fs |-> o.fs, clock |-> IF o.fs = f THEN now ELSE now + 1,
      abort |-> o.raised # NoValue,
      record |-> OutcomeRecord(u, IF o.raised = NoValue THEN "SUCCESS" ELSE "FAILED",
                               NoValue, Nothing)] :
            o \in run_epochs(f, now, u.subject)}

\* the units a loop that was left never came to
never_run(us) ==
    [k \in 1..Len(us) |-> OutcomeRecord(us[k], "ENUMERATED", NoValue, Nothing)]

RECURSIVE sequential(_, _, _, _)
\* the outcomes, unit by unit, that one worker taking the units us in order
\* can leave, starting on file system f at time now
sequential(c, f, now, us) ==
    IF us = <<>> THEN {<<>>}
    ELSE LET u == Head(us)
         IN  IF u.session # 0 /\ get_config_raises(c, u.subject)
             THEN {never_run(us)}
             ELSE UNION {IF r.abort
                         THEN {<<r.record>> \o never_run(Tail(us))}
                         ELSE {<<r.record>> \o t :
                                 t \in sequential(c, r.fs, r.clock, Tail(us))} :
                            r \in IF u.session = 0 THEN epochs_unit(f, now, u)
                                  ELSE forward_unit(f, now, u)}

(* ================= the freshness decision on its own =================== *)
\* any modification times for the three inputs and two outputs of one unit
InitDecide ==
    /\ Idle
    /\ config = Settings(<<1>>, <<1>>, {}, {}, 1, TRUE, FALSE)
    /\ \E t \in [InputNames \cup OutputNames -> 0..MaxTime] :
          fs = [p \in Paths |->
                    CASE p = <<"info", 1, 1>>  -> t["info"]
                      [] p = <<"bem", 1, 0>>   -> t["bem"]
                      [] p = <<"src", 1, 0>>   -> t["src"]
                      [] p = <<"trans", 1, 1>> -> t["trans"]
                      [] p = <<"fwd", 1, 1>>   -> t["forward"]
                      [] OTHER -> 0]
    /\ begin = [fs |-> fs, clock |-> clock]

ApplyDecide ==
    /\ probe = Nothing
    /\ LET ins == get_input_fnames_forward(get_config(1), 1, 1)
           outs == out_fnames_forward(1, 1)
       IN  probe' = [in_files |-> ins, out_files |-> outs,
                     verdict |-> decide(fs, ins, outs)]
    /\ UNCHANGED <<config, fs, clock, pc, units, cfgs, st, in_files, results,
                   completed, logs, saved, err, run, prevLogs, prevSt, executed,
                   begin>>

SpecDecide == InitDecide /\ [][ApplyDecide]_vars

(* =================== the input resolution on its own =================== *)
\* a study with every subject and session; the input files all there or not
InitResolve ==
    /\ Idle
    /\ config = Settings([i \in 1..MaxSubjects |-> MaxSubjects + 1 - i],
                         [i \in 1..MaxSessions |-> i], {}, {}, 1, TRUE, FALSE)
    /\ \E there \in BOOLEAN :
          fs = [p \in Paths |->
                    IF there /\ p[1] \in {"info", "bem", "src"} THEN MaxTime ELSE 0]
    /\ begin = [fs |-> fs, clock |-> clock]

\* one call get_input_fnames_forward(cfg=cfg, subject=subject, session=session)
\* with cfg = get_config(subject=subject), as main() and failsafe_run make it;
\* probe keeps the calls made so far, with what was on disk at the time
ApplyResolve ==
    /\ Len(probe) < MaxCalls
    /\ \E subject \in Range(get_subjects(config)),
          session \in Range(get_sessions(config)) :
          LET cfg == get_config(subject)
              ins == get_input_fnames_forward(cfg, subject, session)
          IN  probe' = Append(probe,
                    [cfg |-> cfg, subject |-> subject, session |-> session,
                     in_files |-> ins,
                     existed |-> [n \in DOMAIN ins |-> fs[ins[n]] > 0]])
    /\ UNCHANGED <<config, fs, clock, pc, units, cfgs, st, in_files, results,
                   completed, logs, saved, err, run, prevLogs, prevSt, executed,
                   begin>>

\* between two calls another step writes or removes one of the files that the
\* last call resolved
Touch ==
    /\ Len(probe) >= 1
    /\ Len(probe) < MaxCalls
    /\ \E n \in InputNames :
          LET p == probe[Len(probe)].in_files[n]
          IN  fs' = [fs EXCEPT ![p] = IF fs[p] = 0 THEN MaxTime ELSE 0]
    /\ UNCHANGED <<config, clock, pc, units, cfgs, st, in_files, results,
                   completed, logs, saved, err, run, prevLogs, prevSt, executed,
                   probe, begin>>

NextResolve == ApplyResolve \/ Touch

SpecResolve == InitResolve /\ [][NextResolve]_vars

(* ================= the pool size of the epoch step ===================== *)
\* config.N_JOBS is any integer the settings file may hold
InitPool ==
    /\ Idle
    /\ \E n \in (0 - MaxNJobs)..MaxNJobs :
          config = Settings(<<>>, <<>>, {}, {}, n, TRUE, FALSE)
    /\ fs = [p \in Paths |-> 0]
    /\ begin = [fs |-> fs, clock |-> clock]

\* the module-level assignment N_JOBS = max(config.N_JOBS // 4, 1)
ApplyPool ==
    /\ probe = Nothing
    /\ probe' = [N_JOBS |-> config.N_JOBS, pool |-> epochs_N_JOBS(config)]
    /\ UNCHANGED <<config, fs, clock, pc, units, cfgs, st, in_files, results,
                   completed, logs, saved, err, run, prevLogs, prevSt, executed,
                   begin>>

SpecPool == InitPool /\ [][ApplyPool]_vars

(* ================== loading the settings: config.py ==================== *)
\* the channel types ch_types may list
ChTypes == {"meg", "grad", "mag", "eeg"}

\* (a check that takes 'meg' for the only MEG channel type)
config_checks_meg_only(c) ==
    IF c.use_maxwell_filter /\ c.ch_types \cap {"meg"} = {}
    THEN [raised |-> "ValueError",
          message |-> "Cannot use maxwell filter without MEG channels."]
    ELSE IF c.use_ssp /\ c.use_ica
    THEN [raised |-> "ValueError", message |-> "Cannot use both SSP and ICA."]
    ELSE [raised |-> NoValue, message |-> NoValue]

\* the CHECKS at the end of config.py, in the order they are made
config_checks(c) ==
    IF c.use_maxwell_filter /\ c.ch_types \cap {"meg", "grad", "mag"} = {}
    THEN [raised |-> "ValueError",
          message |-> "Cannot use maxwell filter without MEG channels."]
    ELSE IF c.use_ssp /\ c.use_ica
    THEN [raised |-> "ValueError", message |-> "Cannot use both SSP and ICA."]
    ELSE [raised |-> NoValue, message |-> NoValue]

\* any values of the four settings the checks read; the study directories
\* are there or can be made
InitConfig ==
    /\ Idle
    /\ \E ssp \in BOOLEAN, ica \in BOOLEAN, maxwell \in BOOLEAN,
          types \in SUBSET ChTypes :
          config = [use_ssp |-> ssp, use_ica |-> ica,
                    use_maxwell_filter |-> maxwell, ch_types |-> types]
    /\ fs = [p \in Paths |-> 0]
    /\ begin = [fs |-> fs, clock |-> clock]

\* import config: the module body runs down to the checks
LoadConfig ==
    /\ pc = "start"
    /\ probe' = config_checks(config)
    /\ err' = probe'.raised
    /\ pc' = IF probe'.raised = NoValue THEN "loaded" ELSE "raised"
    /\ UNCHANGED <<config, fs, clock, units, cfgs, st, in_files, results,
                   completed, logs, saved, run, prevLogs, prevSt, executed,
                   begin>>

\* the step script goes on after its import of config
StepRuns ==
    /\ pc = "loaded"
    /\ pc' = "step"
    /\ UNCHANGED <<config, fs, clock, units, cfgs, st, in_files, results,
                   completed, logs, saved, err, run, prevLogs, prevSt, executed,
                   probe, begin>>

NextConfig == LoadConfig \/ StepRuns

SpecConfig == InitConfig /\ [][NextConfig]_vars

(* ============================= properties ============================== *)
RecordsOf(u) == {k \in 1..Len(logs) : logs[k].unit = u}

StatusCount(status) ==
    Cardinality({k \in 1..Len(logs) : logs[k].status = status})

\* C1: when a batch run of the forward step ends, its log holds exactly one
\* record for every (subject, session) pair of the roster without the
\* excluded subjects, and no other record.
C1_OneRecordPerUnit ==
    (pc = "done" /\ config.run_source_estimation) =>
        /\ \A s \in Range(get_subjects(config)), k \in Range(get_sessions(config)) :
              Cardinality(RecordsOf([subject |-> s, session |-> k])) = 1
        /\ \A i \in 1..N : Cardinality(RecordsOf(units[i])) = 1
        /\ Len(logs) = Len(get_subjects(config)) * Len(get_sessions(config))

C1_Witness ==
    /\ pc = "done"
    /\ N >= 2
    /\ config.N_JOBS > 1
    /\ StatusCount("SKIPPED") >= 1
    /\ StatusCount("FAILED") >= 1

\* C5: the i-th record parallel(...) returns belongs to the i-th enumerated
\* unit, whatever the order in which the workers finished.
C5_OrderPreserved ==
    pc = "done" =>
        /\ Len(logs) = N
        /\ \A i \in 1..N : logs[i].unit = units[i]

C5_Witness ==
    /\ pc = "done"
    /\ config.N_JOBS > 1
    /\ Len(completed) >= 2
    /\ completed[1] > completed[2]
    /\ Len(logs) >= 2

LifecycleSteps ==
    {<<"ENUMERATED", "SNAPSHOT_BUILT">>, <<"SNAPSHOT_BUILT", "INPUTS_RESOLVED">>,
     <<"INPUTS_RESOLVED", "CURRENT">>, <<"INPUTS_RESOLVED", "STALE">>,
     <<"CURRENT", "SKIPPED">>, <<"STALE", "RUNNING">>,
     <<"RUNNING", "SUCCESS">>, <<"RUNNING", "FAILED">>}

LifecycleStep ==
    IF pc = "start"
    THEN \A i \in DOMAIN st' : st'[i] = "ENUMERATED"
    ELSE IF pc = "done"
    THEN TRUE
    ELSE /\ DOMAIN st' = DOMAIN st
         /\ \A i \in DOMAIN st :
              \/ st'[i] = st[i]
              \/ <<st[i], st'[i]>> \in LifecycleSteps
         /\ \A i \in executed' \ executed : st[i] = "STALE"

\* C6: within a batch run a unit only moves along ENUMERATED ->
\* SNAPSHOT_BUILT -> INPUTS_RESOLVED -> (CURRENT -> SKIPPED) or (STALE ->
\* RUNNING -> SUCCESS or FAILED); the body is entered from STALE only, and a
\* unit that is SKIPPED, SUCCESS or FAILED stays so.
C6_Lifecycle == [][LifecycleStep]_vars

C6_Witness ==
    /\ pc = "done"
    /\ \E i \in 1..N : st[i] = "SKIPPED"
    /\ \E i \in 1..N : st[i] = "SUCCESS" /\ i \in executed

ReportedFailed == saved # Nothing /\ saved.exit_failure

\* C9: a batch call that returns is reported as failed exactly when its log holds a FAILED
\* record, and the counts by status add up to the number of enumerated units.
C9_ExitStatus ==
    pc = "done" =>
        /\ ReportedFailed <=> \E k \in 1..Len(logs) : logs[k].status = "FAILED"
        /\ saved # Nothing =>
              /\ saved.counts["SUCCESS"] + saved.counts["SKIPPED"]
                    + saved.counts["FAILED"] = N
              /\ Len(saved.failed) = saved.counts["FAILED"]

C9_Witness ==
    /\ pc = "done"
    /\ ReportedFailed
    /\ StatusCount("FAILED") = 1
    /\ StatusCount("SKIPPED") = 1

\* C10: an error of get_config or of the enumeration is not turned into a
\* record: it leaves the batch call, no logs are returned or saved, and the
\* unit whose snapshot could not be built is never handed to a worker.
C10_StructuralErrorAborts ==
    /\ err = "ConfigurationError" => pc = "raised"
    /\ pc = "raised" => saved = Nothing /\ logs = <<>>
    /\ (config.roster_malformed /\ config.run_source_estimation) =>
          N = 0 /\ pc \in {"start", "raised"}
    /\ \A i \in 1..N :
          get_config_raises(config, units[i].subject) =>
              /\ st[i] = "ENUMERATED"
              /\ results[i] = Nothing
              /\ pc # "done"

C10_Witness ==
    /\ pc = "raised"
    /\ err = "ConfigurationError"
    /\ \E i \in 1..N : st[i] \in Terminal
    /\ \E i \in 1..N : get_config_raises(config, units[i].subject)

(* ------------------- properties of the two steps alike ----------------- *)
\* the inputs a unit's step body reads: those of the forward step for a
\* (subject, session) unit, those of the epoch step for a subject
declared_inputs(u) ==
    IF u.session = 0
    THEN epochs_in_fnames(u.subject)
    ELSE get_input_fnames_forward(get_config(u.subject), u.subject, u.session)

InputMissing(u) ==
    \E n \in DOMAIN declared_inputs(u) : fs[declared_inputs(u)[n]] = 0

\* C2: an error raised in a step body never leaves the batch call; when the
\* body raised for exactly one unit the batch still ends with that unit's one
\* FAILED record and a SUCCESS or SKIPPED record for each other unit.
C2_FaultIsolation ==
    /\ pc = "raised" => err \notin ErrorKinds
    /\ (pc = "done" /\ Cardinality({i \in 1..N : st[i] = "FAILED"}) = 1) =>
          /\ Len(logs) = N
          /\ \A i \in 1..N :
                IF st[i] = "FAILED"
                THEN logs[i].status = "FAILED" /\ logs[i].unit = units[i]
                ELSE logs[i].status \in {"SUCCESS", "SKIPPED"}

\* C4: in a second run right after the first, a unit that succeeded in the
\* first run is SKIPPED and its step body is not executed.
C4_Idempotent ==
    run = 2 =>
        \A i \in 1..N :
            (i \in DOMAIN prevSt /\ prevSt[i] = "SUCCESS") =>
                /\ i \notin executed
                /\ st[i] \notin {"STALE", "RUNNING", "SUCCESS", "FAILED"}

\* C7: a unit with a missing input is never CURRENT or SKIPPED; its body is
\* invoked and fails, and the unit ends with one FAILED record of kind
\* MissingInputError while the batch goes on for the other units.
C7_MissingInputFails ==
    \A i \in 1..N :
        InputMissing(units[i]) =>
            /\ st[i] \notin {"CURRENT", "SKIPPED", "SUCCESS"}
            /\ st[i] = "FAILED" =>
                  /\ i \in executed
                  /\ results[i] # Nothing
                  /\ results[i].status = "FAILED"
                  /\ results[i].error = "MissingInputError"
                  /\ pc # "raised" \/ err = "ConfigurationError"

StepSessions == IF config.sessions = <<>> THEN <<0>> ELSE config.sessions

RosterWithoutExcluded ==
    SelectSeq(config.subjects_list, LAMBDA s : s \notin config.exclude_subjects)

\* C8: the units of a step are the pairs of the roster without the excluded
\* subjects and the sessions, in roster order, and no excluded subject is
\* handed to a step body.
C8_UnitsAreRosterWithoutExcluded ==
    /\ pc = "dispatch" =>
          /\ Len(units) = Len(RosterWithoutExcluded) * Len(StepSessions)
          /\ \A a \in 1..Len(RosterWithoutExcluded), b \in 1..Len(StepSessions) :
                units[(a - 1) * Len(StepSessions) + b] =
                    [subject |-> RosterWithoutExcluded[a],
                     session |-> StepSessions[b]]
    /\ \A i \in executed : units[i].subject \notin config.exclude_subjects

(* --------------------- properties of the backend ----------------------- *)
\* the batch call has returned or raised, and no worker is busy any more
BatchEnded == pc \in {"done", "raised"} /\ InFlight = 0

\* what each unit ended with: its record, or its state where there is none
FinalOutcomes ==
    [i \in 1..N |->
        IF results[i] # Nothing THEN results[i]
        ELSE OutcomeRecord(units[i], st[i], NoValue, Nothing)]

\* C11: whatever the number of workers, a batch ends with per-unit outcomes
\* (status, error kind, produced outputs) that a single worker taking the
\* units in order can produce from the same files with the same step body.
C11_BackendEquivalence ==
    BatchEnded => FinalOutcomes \in sequential(config, begin.fs, begin.clock, units)

\* the locations a unit's step body writes
declared_outputs(u) ==
    IF u.session = 0
    THEN {epochs_fname(u.subject)}
    ELSE Range([k \in 1..2 |->
                    out_fnames_forward(u.subject, u.session)[
                        IF k = 1 THEN "trans" ELSE "forward"]])

Running == {i \in 1..N : st[i] = "RUNNING"}

RunLogStep ==
    IF pc = "done"
    THEN TRUE
    ELSE /\ \A i \in DOMAIN results :
              results[i] # Nothing =>
                  i \in DOMAIN results' /\ results'[i] = results[i]
         /\ \/ completed' = completed
            \/ \E i \in 1..N :
                  /\ i \notin Range(completed)
                  /\ completed' = Append(completed, i)
                  /\ results[i] = Nothing
                  /\ results'[i] # Nothing
                  /\ results'[i].unit = units[i]
         /\ pc' = "done" =>
              /\ Len(logs') = Len(completed)
              /\ \A i \in Range(completed) : logs'[i] = results[i]

\* C13: within a batch run a worker that finishes adds its one record and
\* leaves every record that is already there as it is; the returned log
\* holds every record that was added, none lost and none changed.
C13_AppendOnly == [][RunLogStep]_vars

C13_Witness ==
    /\ pc = "dispatch"
    /\ Len(completed) >= 2
    /\ completed[1] > completed[2]
    /\ \A i \in Range(completed) :
          results[i] # Nothing /\ results[i].unit = units[i]
    /\ results[completed[1]].status # results[completed[2]].status

AllUnitsTerminal == \A i \in 1..N : st[i] \in Terminal

\* C14: a batch run that has started and meets no structural error comes to
\* its end, and by then every enumerated unit is SKIPPED, SUCCESS or FAILED:
\* a unit that failed has not kept the others from being executed.
C14_BatchCompletes ==
    (pc = "start") ~> (\/ pc = "done" /\ AllUnitsTerminal
                       \/ err = "ConfigurationError")

(* ------------------- properties of the resolution --------------------- *)
\* a call of the resolver leaves the settings, the files and the snapshots
\* as they are and returns locations for exactly info, bem and src
ResolveIsPure ==
    /\ UNCHANGED <<config, fs, clock, cfgs, units, in_files>>
    /\ LET r == probe'[Len(probe')]
       IN  /\ DOMAIN r.in_files = {"info", "bem", "src"}
           /\ r.cfg = get_config(r.subject)

\* C15 as stated: two calls with equal snapshots return equal mappings,
\* whatever is on disk, and a call changes no state.
C15_SnapshotAloneDecides ==
    [][probe' # probe =>
          /\ ResolveIsPure
          /\ \A a \in 1..Len(probe) :
                probe[a].cfg = probe'[Len(probe')].cfg =>
                    probe[a].in_files = probe'[Len(probe')].in_files]_vars

\* C15: two calls with equal snapshots for the same subject and session
\* return equal mappings, whatever is on disk, and a call changes no state.
C15_SnapshotAndUnitDecide ==
    [][probe' # probe =>
          /\ ResolveIsPure
          /\ \A a \in 1..Len(probe) :
                (/\ probe[a].cfg = probe'[Len(probe')].cfg
                 /\ probe[a].subject = probe'[Len(probe')].subject
                 /\ probe[a].session = probe'[Len(probe')].session) =>
                    probe[a].in_files = probe'[Len(probe')].in_files]_vars

C15_Witness ==
    /\ Len(probe) >= 2
    /\ probe[1].cfg = probe[2].cfg
    /\ probe[1].subject = probe[2].subject
    /\ probe[1].session = probe[2].session
    /\ probe[1].in_files = probe[2].in_files
    /\ \E n \in InputNames : probe[1].existed[n] # probe[2].existed[n]

(* -------------------- properties of the pool size --------------------- *)
\* C16: the pool of the epoch step has at least one worker for every
\* configured N_JOBS; it is 1 below 4 and the quarter of N_JOBS rounded down
\* from 4 on; for N_JOBS >= 1 it is not larger than N_JOBS and for
\* N_JOBS >= 2 it is smaller than N_JOBS.
C16_PoolSize ==
    probe # Nothing =>
        /\ probe.pool >= 1
        /\ probe.N_JOBS < 4 => probe.pool = 1
        /\ probe.N_JOBS >= 4 =>
              /\ 4 * probe.pool <= probe.N_JOBS
              /\ probe.N_JOBS < 4 * (probe.pool + 1)
        /\ probe.N_JOBS >= 1 => probe.pool <= probe.N_JOBS
        /\ probe.N_JOBS >= 2 => probe.pool < probe.N_JOBS

C16_Witness ==
    /\ probe # Nothing
    /\ probe.N_JOBS = 11
    /\ probe.pool = 2

(* -------------------- properties of the settings ---------------------- *)
SspAndIca == config.use_ssp /\ config.use_ica

MaxwellWithoutMeg ==
    /\ config.use_maxwell_filter
    /\ "meg" \notin config.ch_types
    /\ "grad" \notin config.ch_types
    /\ "mag" \notin config.ch_types

\* C17: loading the settings raises a ValueError exactly when use_ssp and
\* use_ica are both set or use_maxwell_filter is set and ch_types has none
\* of meg, grad, mag; otherwise the settings load, and a step runs only
\* with settings that are in neither case.
C17_ChecksRejectExactly ==
    /\ pc # "start" =>
          /\ err = "ValueError" <=> (SspAndIca \/ MaxwellWithoutMeg)
          /\ pc = "raised" <=> (SspAndIca \/ MaxwellWithoutMeg)
          /\ pc \in {"loaded", "step"} <=> ~(SspAndIca \/ MaxwellWithoutMeg)
    /\ pc = "step" => ~SspAndIca /\ ~MaxwellWithoutMeg

C17_Witness ==
    /\ pc = "raised"
    /\ err = "ValueError"
    /\ MaxwellWithoutMeg
    /\ ~SspAndIca
    /\ config.ch_types = {"eeg"}

(* -------------------- properties of the decision ----------------------- *)
AllExist(f, files) == \A n \in DOMAIN files : f[files[n]] > 0

\* no output is older than an input that exists
NoOutputOlder(f, ins, outs) ==
    \A o \in DOMAIN outs, n \in DOMAIN ins :
        f[ins[n]] > 0 => f[outs[o]] >= f[ins[n]]

====
